---- MODULE Spec2Model ----
(***************************************************************************)
(* Memory Scramble: the Board ADT (backend/src/game/board.py) and the      *)
(* GameManager session (backend/src/commands/commands.py).                 *)
(*                                                                         *)
(* Every GameManager coroutine runs without reaching an await (Board has   *)
(* no wait_for_flip / wait_for_change), so on the asyncio event loop each  *)
(* call is one atomic step.  A Python exception is modelled by the field   *)
(* exc of a mutator's outcome: None when the call returned, otherwise the  *)
(* assertion that failed.  A mutator writes the grid BEFORE it runs         *)
(* check_rep, so an outcome can carry both a changed grid and an exc.      *)
(***************************************************************************)
EXTENDS Integers, Sequences, FiniteSets, TLC

\* ------------------------------------------------------------------ bounds
\* largest total number of pending entries (successful flips) explored
MaxFlips == 2
\* largest score explored
MaxScore == 2
\* largest number of pending entries explored when one player plays alone
MaxSoloFlips == 3

\* ------------------------------------------------------------------ values
\* Python's None; player ids and cards are drawn from sets that exclude it
None == "None"

\* player ids issuing requests
Players == {"p1", "p2"}

\* player_id arguments handed to Board.set_control, valid or not
PlayerArgs == Players \cup {None, ""}

\* card identifiers a board is built from, in a fixed order
AllCards == <<"A", "B">>

\* (width, height) of the boards explored
BoardDims == {<<2, 2>>, <<2, 1>>, <<1, 2>>}

\* (width, height) of the boards explored when the Board mutators are also
\* called directly
SmallDims == {<<2, 1>>, <<1, 2>>}

VARIABLES width, height, grid, scores, pending_cards, call, ret

vars == <<width, height, grid, scores, pending_cards, call, ret>>

\* frozen dataclass Space(card, is_face_up, controlled_by)
Space(c, up, ctl) == [card |-> c, is_face_up |-> up, controlled_by |-> ctl]

\* a Python dict is a function whose DOMAIN is its key set
EmptyDict == [k \in {} |-> 0]

\* an assignment that rebinds the dict to one holding the single key k
\* (d = {k: v}) in place of d[k] = v
DictSet_rebinding(d, k, v) == [q \in {k} |-> v]

DictSet(d, k, v) == [q \in (DOMAIN d) \cup {k} |-> IF q = k THEN v ELSE d[q]]

DictGet(d, k, default) == IF k \in DOMAIN d THEN d[k] ELSE default

\* str.isspace() on the identifiers used here
IsSpace(s) == s \in {" ", "  "}

\* number of cells of g holding card c
CardCount(g, w, h, c) ==
    Cardinality({p \in (0 .. w - 1) \X (0 .. h - 1) : g[p[2]][p[1]].card = c})

\* Board.check_rep: TRUE when no assertion fails
check_rep(g) ==
    /\ DOMAIN g = 0 .. height - 1
    /\ \A y \in 0 .. height - 1 : DOMAIN g[y] = 0 .. width - 1
    /\ \A y \in 0 .. height - 1 : \A x \in 0 .. width - 1 :
         LET space == g[y][x] IN
           /\ IF space.card = None
                THEN ~space.is_face_up /\ space.controlled_by = None
                ELSE space.card # "" /\ ~IsSpace(space.card)
           /\ space.controlled_by # None =>
                space.is_face_up /\ space.controlled_by # ""
           /\ space.is_face_up \in BOOLEAN
    /\ \A c \in {g[y][x].card : x \in 0 .. width - 1, y \in 0 .. height - 1} \ {None} :
         CardCount(g, width, height, c) = 2

\* the card identifiers Board(w, h, cards) is given: w*h/2 distinct ones
CardSet(w, h) == {AllCards[i] : i \in 1 .. ((w * h) \div 2)}

\* a deal that draws each position's card at random (random.choices) in
\* place of shuffling the list holding each card twice
Shuffles_with_replacement(cards) == [1 .. 2 * Cardinality(cards) -> cards]

\* random.shuffle(card_list): every ordering of each card taken twice
Shuffles(cards) ==
    {cl \in [1 .. 2 * Cardinality(cards) -> cards] :
        \A c \in cards : Cardinality({i \in DOMAIN cl : cl[i] = c}) = 2}

\* Board.__init__: the grids a new board can hold, filled row-major
BoardInit(w, h, cards) ==
    {[y \in 0 .. h - 1 |-> [x \in 0 .. w - 1 |->
          Space(cl[y * w + x + 1], FALSE, None)]] : cl \in Shuffles(cards)}

\* Board(w, h, cards) followed by GameManager(board), for (w, h) in dims
InitOn(dims) ==
    /\ \E d \in dims :
         /\ width = d[1]
         /\ height = d[2]
         /\ grid \in BoardInit(d[1], d[2], CardSet(d[1], d[2]))
    /\ scores = EmptyDict
    /\ pending_cards = EmptyDict
    /\ call = [op |-> "new"]
    /\ ret = [ok |-> TRUE]

Init == InitOn(BoardDims)

InitBoard == InitOn(SmallDims)

\* ------------------------------------------------------- Board operations
\* what a Board method leaves behind: the grid, and the assertion that
\* failed (None when the method returned)
Outcome(g, e) == [grid |-> g, exc |-> e]

\* the bounds assertions every Board method starts with
in_bounds(x, y) == 0 <= x /\ x < width /\ 0 <= y /\ y < height

\* Board.get_space: the Space at (x, y), or the failed bounds assertion
get_space(g, x, y) ==
    IF in_bounds(x, y)
      THEN [space |-> g[y][x], exc |-> None]
      ELSE [space |-> None, exc |-> "out of bounds"]

\* the write self._grid[y][x] = new_space followed by self.check_rep()
write_checked(g, x, y, new_space) ==
    LET g2 == [g EXCEPT ![y][x] = new_space]
    IN  Outcome(g2, IF check_rep(g2) THEN None ELSE "check_rep")

\* flip_card as it would be if hiding a card dropped it from the new Space
flip_card_dropping_card(g, x, y) ==
    IF ~in_bounds(x, y) THEN Outcome(g, "out of bounds")
    ELSE LET space == g[y][x] IN
      IF space.card = None THEN Outcome(g, "No card")
      ELSE LET new_is_face_up == ~space.is_face_up
           IN  write_checked(g, x, y,
                   Space(IF new_is_face_up THEN space.card ELSE None,
                         new_is_face_up,
                         IF ~new_is_face_up THEN None ELSE space.controlled_by))

\* flip_card as it would be if hiding a card did not release control
flip_card_keeping_control(g, x, y) ==
    IF ~in_bounds(x, y) THEN Outcome(g, "out of bounds")
    ELSE LET space == g[y][x] IN
      IF space.card = None THEN Outcome(g, "No card")
      ELSE write_checked(g, x, y,
               Space(space.card, ~space.is_face_up, space.controlled_by))

\* Board.flip_card
flip_card(g, x, y) ==
    IF ~in_bounds(x, y) THEN Outcome(g, "out of bounds")
    ELSE LET space == g[y][x] IN
      IF space.card = None THEN Outcome(g, "No card")
      ELSE LET new_is_face_up == ~space.is_face_up
               new_controlled_by ==
                   IF ~new_is_face_up THEN None ELSE space.controlled_by
           IN  write_checked(g, x, y,
                   Space(space.card, new_is_face_up, new_controlled_by))

\* Board.set_control storing no controller (the write of remove_control)
set_control_clearing(g, x, y, player_id) ==
    IF ~in_bounds(x, y) THEN Outcome(g, "out of bounds")
    ELSE IF player_id = None THEN Outcome(g, "player_id must be string")
    ELSE IF player_id = "" THEN Outcome(g, "player_id must be non-empty")
    ELSE LET space == g[y][x] IN
      IF space.card = None THEN Outcome(g, "No card")
      ELSE IF ~space.is_face_up THEN Outcome(g, "must be face-up to control")
      ELSE write_checked(g, x, y, Space(space.card, space.is_face_up, None))

\* Board.set_control without the assertion that the card is face-up
set_control_on_any_face(g, x, y, player_id) ==
    IF ~in_bounds(x, y) THEN Outcome(g, "out of bounds")
    ELSE IF player_id = None THEN Outcome(g, "player_id must be string")
    ELSE IF player_id = "" THEN Outcome(g, "player_id must be non-empty")
    ELSE LET space == g[y][x] IN
      IF space.card = None THEN Outcome(g, "No card")
      ELSE write_checked(g, x, y,
               Space(space.card, space.is_face_up, player_id))

\* Board.set_control
set_control(g, x, y, player_id) ==
    IF ~in_bounds(x, y) THEN Outcome(g, "out of bounds")
    ELSE IF player_id = None THEN Outcome(g, "player_id must be string")
    ELSE IF player_id = "" THEN Outcome(g, "player_id must be non-empty")
    ELSE LET space == g[y][x] IN
      IF space.card = None THEN Outcome(g, "No card")
      ELSE IF ~space.is_face_up THEN Outcome(g, "must be face-up to control")
      ELSE write_checked(g, x, y,
               Space(space.card, space.is_face_up, player_id))

\* Board.remove_control building the new Space face-down
remove_control_hiding(g, x, y) ==
    IF ~in_bounds(x, y) THEN Outcome(g, "out of bounds")
    ELSE LET space == g[y][x] IN
      IF space.card = None THEN Outcome(g, "No card")
      ELSE write_checked(g, x, y, Space(space.card, FALSE, None))

\* Board.remove_control
remove_control(g, x, y) ==
    IF ~in_bounds(x, y) THEN Outcome(g, "out of bounds")
    ELSE LET space == g[y][x] IN
      IF space.card = None THEN Outcome(g, "No card")
      ELSE write_checked(g, x, y, Space(space.card, space.is_face_up, None))

\* Board.remove_card without the assertion that the card is face-up
remove_card_on_any_face(g, x, y) ==
    IF ~in_bounds(x, y) THEN Outcome(g, "out of bounds")
    ELSE LET space == g[y][x] IN
      IF space.card = None THEN Outcome(g, "No card")
      ELSE Outcome([g EXCEPT ![y][x] = Space(None, FALSE, None)], None)

\* Board.remove_card: writes the empty space and does not run check_rep
remove_card(g, x, y) ==
    IF ~in_bounds(x, y) THEN Outcome(g, "out of bounds")
    ELSE LET space == g[y][x] IN
      IF space.card = None THEN Outcome(g, "No card")
      ELSE IF ~space.is_face_up THEN Outcome(g, "must be face-up to remove")
      ELSE Outcome([g EXCEPT ![y][x] = Space(None, FALSE, None)], None)

\* ------------------------------------------------- GameManager operations
\* what a GameManager method leaves behind: the board's grid, the two
\* dicts, and the dict it returns
Effect(g, sc, pc, r) == [grid |-> g, scores |-> sc, pending_cards |-> pc, ret |-> r]

\* GameManager._serialize_board: a list of rows, each a list of cell dicts
serialize_board(g) ==
    [i \in 1 .. height |-> [j \in 1 .. width |->
        LET space == get_space(g, j - 1, i - 1).space
        IN  [card |-> space.card,
             is_face_up |-> space.is_face_up,
             controlled_by |-> space.controlled_by]]]

\* look as it would be if it entered the caller in the score table
look_registering_player(player_id) ==
    LET sc == DictSet(scores, player_id, DictGet(scores, player_id, 0))
    IN  Effect(grid, sc, pending_cards,
               [board |-> serialize_board(grid), width |-> width,
                height |-> height, scores |-> sc, ok |-> TRUE])

\* GameManager.look
look(player_id) ==
    Effect(grid, scores, pending_cards,
           [board |-> serialize_board(grid), width |-> width,
            height |-> height, scores |-> scores, ok |-> TRUE])

\* the bounds test as it would be with > in place of >=
flip_out_of_bounds_off_by_one(x, y) == x < 0 \/ x > width \/ y < 0 \/ y > height

\* the bounds test GameManager.flip starts with
flip_out_of_bounds(x, y) == x < 0 \/ x >= width \/ y < 0 \/ y >= height

\* an except clause that lets the error through instead of answering
error_result_reraising(e) == [exc |-> e]

\* the except clause of flip and check_match: the result for a raised error
error_result(e) == [ok |-> FALSE, message |-> <<"Error", e>>]

\* GameManager.flip
flip(player_id, x, y) ==
    IF flip_out_of_bounds(x, y)
      THEN Effect(grid, scores, pending_cards,
                  [ok |-> FALSE,
                   message |-> <<"out of bounds", x, y, width, height>>])
    ELSE LET got == get_space(grid, x, y) IN
      IF got.exc # None
        THEN Effect(grid, scores, pending_cards, error_result(got.exc))
      ELSE IF got.space.card = None
        THEN Effect(grid, scores, pending_cards,
                    [ok |-> FALSE, message |-> <<"No card at", x, y>>])
      ELSE LET card_value == got.space.card
               flipped == flip_card(grid, x, y)
               taken == set_control(flipped.grid, x, y, player_id)
               mine == DictGet(pending_cards, player_id, <<>>)
           IN  IF flipped.exc # None
                 THEN Effect(flipped.grid, scores, pending_cards,
                             error_result(flipped.exc))
               ELSE IF taken.exc # None
                 THEN Effect(taken.grid, scores, pending_cards,
                             error_result(taken.exc))
               ELSE Effect(taken.grid, scores,
                           DictSet(pending_cards, player_id,
                                   Append(mine, <<x, y, card_value>>)),
                           [ok |-> TRUE,
                            message |-> <<"Flipped", card_value, x, y>>,
                            card |-> card_value])

\* GameManager.check_match adding the point before the board is updated
check_match_scoring_first(player_id) ==
    IF player_id \notin DOMAIN pending_cards \/ Len(pending_cards[player_id]) < 2
      THEN Effect(grid, scores, pending_cards,
                  [ok |-> FALSE, message |-> <<"No two cards to check">>])
    ELSE LET mine == pending_cards[player_id]
             first == mine[Len(mine) - 1]
             second == mine[Len(mine)]
             x1 == first[1]
             y1 == first[2]
             card1 == first[3]
             x2 == second[1]
             y2 == second[2]
             card2 == second[3]
         IN  IF card1 = card2
               THEN LET s1 == set_control(grid, x1, y1, None)
                        s2 == set_control(s1.grid, x2, y2, None)
                        s3 == flip_card(s2.grid, x1, y1)
                        s4 == flip_card(s3.grid, x2, y2)
                        scored == DictSet(scores, player_id,
                                          DictGet(scores, player_id, 0) + 1)
                    IN  IF s1.exc # None
                          THEN Effect(s1.grid, scored, pending_cards, error_result(s1.exc))
                        ELSE IF s2.exc # None
                          THEN Effect(s2.grid, scored, pending_cards, error_result(s2.exc))
                        ELSE IF s3.exc # None
                          THEN Effect(s3.grid, scored, pending_cards, error_result(s3.exc))
                        ELSE IF s4.exc # None
                          THEN Effect(s4.grid, scored, pending_cards, error_result(s4.exc))
                        ELSE Effect(s4.grid,
                                    scored,
                                    DictSet(pending_cards, player_id, <<>>),
                                    [ok |-> TRUE, matched |-> TRUE, card |-> card1])
               ELSE LET s1 == flip_card(grid, x1, y1)
                        s2 == flip_card(s1.grid, x2, y2)
                        s3 == set_control(s2.grid, x1, y1, None)
                        s4 == set_control(s3.grid, x2, y2, None)
                    IN  IF s1.exc # None
                          THEN Effect(s1.grid, scores, pending_cards, error_result(s1.exc))
                        ELSE IF s2.exc # None
                          THEN Effect(s2.grid, scores, pending_cards, error_result(s2.exc))
                        ELSE IF s3.exc # None
                          THEN Effect(s3.grid, scores, pending_cards, error_result(s3.exc))
                        ELSE IF s4.exc # None
                          THEN Effect(s4.grid, scores, pending_cards, error_result(s4.exc))
                        ELSE Effect(s4.grid, scores,
                                    DictSet(pending_cards, player_id, <<>>),
                                    [ok |-> TRUE, matched |-> FALSE])

\* GameManager.check_match opening an empty selection for a player who has
\* none (pending_cards.setdefault) before it looks at the selection
check_match_registering_player(player_id) ==
    IF player_id \notin DOMAIN pending_cards \/ Len(pending_cards[player_id]) < 2
      THEN Effect(grid, scores,
                  DictSet(pending_cards, player_id,
                          DictGet(pending_cards, player_id, <<>>)),
                  [ok |-> FALSE, message |-> <<"No two cards to check">>])
    ELSE LET mine == pending_cards[player_id]
             first == mine[Len(mine) - 1]
             second == mine[Len(mine)]
             x1 == first[1]
             y1 == first[2]
             card1 == first[3]
             x2 == second[1]
             y2 == second[2]
             card2 == second[3]
         IN  IF card1 = card2
               THEN LET s1 == set_control(grid, x1, y1, None)
                        s2 == set_control(s1.grid, x2, y2, None)
                        s3 == flip_card(s2.grid, x1, y1)
                        s4 == flip_card(s3.grid, x2, y2)
                    IN  IF s1.exc # None
                          THEN Effect(s1.grid, scores, pending_cards, error_result(s1.exc))
                        ELSE IF s2.exc # None
                          THEN Effect(s2.grid, scores, pending_cards, error_result(s2.exc))
                        ELSE IF s3.exc # None
                          THEN Effect(s3.grid, scores, pending_cards, error_result(s3.exc))
                        ELSE IF s4.exc # None
                          THEN Effect(s4.grid, scores, pending_cards, error_result(s4.exc))
                        ELSE Effect(s4.grid,
                                    DictSet(scores, player_id,
                                            DictGet(scores, player_id, 0) + 1),
                                    DictSet(pending_cards, player_id, <<>>),
                                    [ok |-> TRUE, matched |-> TRUE, card |-> card1])
               ELSE LET s1 == flip_card(grid, x1, y1)
                        s2 == flip_card(s1.grid, x2, y2)
                        s3 == set_control(s2.grid, x1, y1, None)
                        s4 == set_control(s3.grid, x2, y2, None)
                    IN  IF s1.exc # None
                          THEN Effect(s1.grid, scores, pending_cards, error_result(s1.exc))
                        ELSE IF s2.exc # None
                          THEN Effect(s2.grid, scores, pending_cards, error_result(s2.exc))
                        ELSE IF s3.exc # None
                          THEN Effect(s3.grid, scores, pending_cards, error_result(s3.exc))
                        ELSE IF s4.exc # None
                          THEN Effect(s4.grid, scores, pending_cards, error_result(s4.exc))
                        ELSE Effect(s4.grid, scores,
                                    DictSet(pending_cards, player_id, <<>>),
                                    [ok |-> TRUE, matched |-> FALSE])

\* GameManager.check_match
check_match(player_id) ==
    IF player_id \notin DOMAIN pending_cards \/ Len(pending_cards[player_id]) < 2
      THEN Effect(grid, scores, pending_cards,
                  [ok |-> FALSE, message |-> <<"No two cards to check">>])
    ELSE LET mine == pending_cards[player_id]
             first == mine[Len(mine) - 1]
             second == mine[Len(mine)]
             x1 == first[1]
             y1 == first[2]
             card1 == first[3]
             x2 == second[1]
             y2 == second[2]
             card2 == second[3]
         IN  IF card1 = card2
               THEN LET s1 == set_control(grid, x1, y1, None)
                        s2 == set_control(s1.grid, x2, y2, None)
                        s3 == flip_card(s2.grid, x1, y1)
                        s4 == flip_card(s3.grid, x2, y2)
                    IN  IF s1.exc # None
                          THEN Effect(s1.grid, scores, pending_cards, error_result(s1.exc))
                        ELSE IF s2.exc # None
                          THEN Effect(s2.grid, scores, pending_cards, error_result(s2.exc))
                        ELSE IF s3.exc # None
                          THEN Effect(s3.grid, scores, pending_cards, error_result(s3.exc))
                        ELSE IF s4.exc # None
                          THEN Effect(s4.grid, scores, pending_cards, error_result(s4.exc))
                        ELSE Effect(s4.grid,
                                    DictSet(scores, player_id,
                                            DictGet(scores, player_id, 0) + 1),
                                    DictSet(pending_cards, player_id, <<>>),
                                    [ok |-> TRUE, matched |-> TRUE, card |-> card1])
               ELSE LET s1 == flip_card(grid, x1, y1)
                        s2 == flip_card(s1.grid, x2, y2)
                        s3 == set_control(s2.grid, x1, y1, None)
                        s4 == set_control(s3.grid, x2, y2, None)
                    IN  IF s1.exc # None
                          THEN Effect(s1.grid, scores, pending_cards, error_result(s1.exc))
                        ELSE IF s2.exc # None
                          THEN Effect(s2.grid, scores, pending_cards, error_result(s2.exc))
                        ELSE IF s3.exc # None
                          THEN Effect(s3.grid, scores, pending_cards, error_result(s3.exc))
                        ELSE IF s4.exc # None
                          THEN Effect(s4.grid, scores, pending_cards, error_result(s4.exc))
                        ELSE Effect(s4.grid, scores,
                                    DictSet(pending_cards, player_id, <<>>),
                                    [ok |-> TRUE, matched |-> FALSE])

\* the methods class Board defines (what hasattr(self.board, name) sees)
BoardMethods ==
    {"check_rep", "get_space", "get_card", "is_face_up", "get_controller",
     "flip_card", "set_control", "remove_control", "remove_card",
     "parse_from_file"}

\* GameManager.watch: self.board.wait_for_change() where Board defines no
\* such method raises AttributeError, which the except clause turns into
\* a result
watch(player_id) ==
    IF "wait_for_change" \in BoardMethods
      THEN Effect(grid, scores, pending_cards,
                  [board |-> serialize_board(grid), width |-> width,
                   height |-> height, scores |-> scores, ok |-> TRUE])
      ELSE Effect(grid, scores, pending_cards,
                  [ok |-> FALSE, error |-> "AttributeError"])

\* ----------------------------------------------------------------- steps
\* total number of pending entries over all players
TotalPending(pc) ==
    LET RECURSIVE Sum(_)
        Sum(S) == IF S = {} THEN 0
                  ELSE LET k == CHOOSE k \in S : TRUE
                       IN  Len(pc[k]) + Sum(S \ {k})
    IN  Sum(DOMAIN pc)

\* a GameManager call runs to its return as one step on the event loop
Apply(e) ==
    LET done == e IN
      /\ grid' = done.grid
      /\ scores' = done.scores
      /\ pending_cards' = done.pending_cards
      /\ ret' = done.ret
      /\ UNCHANGED <<width, height>>

\* the cells of the board, as (x, y)
Cells == (0 .. width - 1) \X (0 .. height - 1)

\* (x, y) arguments: every cell, and one position beyond each edge
CoordArgs ==
    ((0 .. width - 1) \X (0 .. height - 1))
      \cup {<<-1, 0>>, <<width, 0>>, <<0, -1>>, <<0, height>>}

Look(p) ==
    /\ call' = [op |-> "look", player |-> p]
    /\ Apply(look(p))

\* a flip call, explored while at most max entries are pending in total
FlipUpTo(p, x, y, max) ==
    LET e == flip(p, x, y) IN
      /\ TotalPending(e.pending_cards) <= max
      /\ call' = [op |-> "flip", player |-> p, x |-> x, y |-> y]
      /\ Apply(e)

Flip(p, x, y) == FlipUpTo(p, x, y, MaxFlips)

CheckMatch(p) ==
    LET e == check_match(p) IN
      /\ \A q \in DOMAIN e.scores : e.scores[q] <= MaxScore
      /\ call' = [op |-> "check_match", player |-> p]
      /\ Apply(e)

Watch(p) ==
    /\ call' = [op |-> "watch", player |-> p]
    /\ Apply(watch(p))

\* a public mutator of class Board called on its own on the manager's
\* board, by a client of the Board; its AssertionError propagates to that
\* caller
ApplyBoard(o) ==
    LET done == o IN
      /\ grid' = done.grid
      /\ ret' = [exc |-> done.exc]
      /\ UNCHANGED <<width, height, scores, pending_cards>>

BoardFlipCard(x, y) ==
    /\ call' = [op |-> "flip_card", x |-> x, y |-> y]
    /\ ApplyBoard(flip_card(grid, x, y))

BoardSetControl(x, y, p) ==
    /\ call' = [op |-> "set_control", x |-> x, y |-> y, player |-> p]
    /\ ApplyBoard(set_control(grid, x, y, p))

BoardRemoveControl(x, y) ==
    /\ call' = [op |-> "remove_control", x |-> x, y |-> y]
    /\ ApplyBoard(remove_control(grid, x, y))

BoardRemoveCard(x, y) ==
    /\ call' = [op |-> "remove_card", x |-> x, y |-> y]
    /\ ApplyBoard(remove_card(grid, x, y))

\* the server's POST /reset: up to four Board mutator calls on the manager's
\* board, ended by the first that raises; the except clause answers with
\* str(e)
reset_cards(player_id, x1, y1, x2, y2) ==
    LET s1 == flip_card(grid, x1, y1)
        s2 == flip_card(s1.grid, x2, y2)
        s3 == set_control(s2.grid, x1, y1, None)
        s4 == set_control(s3.grid, x2, y2, None)
        failed(e) == [ok |-> FALSE, message |-> <<e>>]
    IN  IF s1.exc # None
          THEN Effect(s1.grid, scores, pending_cards, failed(s1.exc))
        ELSE IF s2.exc # None
          THEN Effect(s2.grid, scores, pending_cards, failed(s2.exc))
        ELSE IF s3.exc # None
          THEN Effect(s3.grid, scores, pending_cards, failed(s3.exc))
        ELSE IF s4.exc # None
          THEN Effect(s4.grid, scores, pending_cards, failed(s4.exc))
        ELSE Effect(s4.grid, scores, pending_cards,
                    [ok |-> TRUE, message |-> <<"Cards reset">>])

\* one POST /reset request, run to its return
ResetCards(p, c1, c2) ==
    /\ call' = [op |-> "reset_cards", player |-> p]
    /\ Apply(reset_cards(p, c1[1], c1[2], c2[1], c2[2]))

\* the server's POST /games/new: the game in play is replaced by a new
\* GameManager on a newly dealt Board (the server deals every board with
\* the same dimensions and card set)
GamesNew ==
    /\ grid' \in BoardInit(width, height, CardSet(width, height))
    /\ scores' = EmptyDict
    /\ pending_cards' = EmptyDict
    /\ call' = [op |-> "new"]
    /\ ret' = [ok |-> TRUE]
    /\ UNCHANGED <<width, height>>

\* the GameManager operations, by any player, in any order
Next ==
    \/ \E p \in Players : Look(p)
    \/ \E p \in Players : \E c \in CoordArgs : Flip(p, c[1], c[2])
    \/ \E p \in Players : CheckMatch(p)
    \/ \E p \in Players : Watch(p)

Spec == Init /\ [][Next]_vars

\* the GameManager operations together with direct calls of the Board
\* mutators and the server's requests that reach the board past the manager
NextBoard ==
    \/ Next
    \/ \E p \in Players : \E c1, c2 \in CoordArgs : ResetCards(p, c1, c2)
    \/ GamesNew
    \/ \E c \in CoordArgs : BoardFlipCard(c[1], c[2])
    \/ \E c \in CoordArgs : \E p \in PlayerArgs : BoardSetControl(c[1], c[2], p)
    \/ \E c \in CoordArgs : BoardRemoveControl(c[1], c[2])
    \/ \E c \in CoordArgs : BoardRemoveCard(c[1], c[2])

SpecBoard == InitBoard /\ [][NextBoard]_vars

\* the player of a game played alone
SoloPlayer == "p1"

\* one player alone, flipping and asking for the match check
NextSolo ==
    \/ \E c \in CoordArgs : FlipUpTo(SoloPlayer, c[1], c[2], MaxSoloFlips)
    \/ CheckMatch(SoloPlayer)

SpecSolo == Init /\ [][NextSolo]_vars

\* the players that have flipped a card
Flippers == DOMAIN pending_cards

\* the cells some player has flipped, as (x, y)
FlippedCells ==
    UNION {{<<pending_cards[p][i][1], pending_cards[p][i][2]>> :
               i \in 1 .. Len(pending_cards[p])} : p \in Flippers}

\* N players of a board of 2N cells each issue one flip, on a cell no other
\* player flips (the flips of test_concurrent.py, made disjoint)
DisjointFlip(p, c) ==
    /\ p \notin Flippers
    /\ c \notin FlippedCells
    /\ 2 * (Cardinality(Flippers) + 1) <= width * height
    /\ Flip(p, c[1], c[2])

\* the disjoint flips in any order, with looks in between
NextDisjoint ==
    \/ \E p \in Players : \E c \in Cells : DisjointFlip(p, c)
    \/ \E p \in Players : Look(p)

SpecDisjoint == Init /\ [][NextDisjoint]_vars

\* ---------------------------------------------------------------- claims
\* the player's pending selection (empty when the player has no entry)
PendingOf(pc, p) == DictGet(pc, p, <<>>)

\* the step just taken is the GameManager call op
Called(op) == call'.op = op

\* C1: in every state reachable through GameManager operations (look, flip,
\* check_match, watch, by any players in any order) every card identifier
\* still on the board occurs in exactly two cells, never in exactly one.
C1_CardsInPairs ==
    \A c \in Cells :
        grid[c[2]][c[1]].card # None =>
            CardCount(grid, width, height, grid[c[2]][c[1]].card) = 2

\* C1 witness: check_match has run for a player whose last two pending
\* cards are equal, and cards are hidden again on the board
C1_Witness ==
    /\ call.op = "check_match"
    /\ Len(PendingOf(pending_cards, call.player)) = 2
    /\ pending_cards[call.player][1][3] = pending_cards[call.player][2][3]
    /\ pending_cards[call.player][1] # pending_cards[call.player][2]
    /\ \E c \in Cells : ~grid[c[2]][c[1]].is_face_up

\* C2: in every state reachable through Board mutators and GameManager
\* operations, a cell whose controller is not None is face-up.
C2_ControlledIsFaceUp ==
    \A c \in Cells :
        grid[c[2]][c[1]].controlled_by # None => grid[c[2]][c[1]].is_face_up

\* C2 witness: a card that a player controlled has been hidden by a flip
\* while another cell is still controlled
C2_Witness ==
    /\ call.op \in {"flip", "flip_card"}
    /\ in_bounds(call.x, call.y)
    /\ grid[call.y][call.x].card # None
    /\ ~grid[call.y][call.x].is_face_up
    /\ \E p \in Players : <<call.x, call.y, grid[call.y][call.x].card>>
           \in {PendingOf(pending_cards, p)[i] : i \in DOMAIN PendingOf(pending_cards, p)}
    /\ \E c \in Cells : grid[c[2]][c[1]].controlled_by # None

\* C3 (as claimed): a flip by player on an in-bounds cell that holds a card
\* and is not controlled by a different player returns ok with the card,
\* leaves the cell face-up and controlled by player, and appends
\* (x, y, card) to the player's pending selection, whether the cell was
\* hidden or face-up.
C3_FlipSucceeds ==
    [][(/\ Called("flip")
        /\ in_bounds(call'.x, call'.y)
        /\ grid[call'.y][call'.x].card # None
        /\ grid[call'.y][call'.x].controlled_by \in {None, call'.player})
       => (/\ ret'.ok
           /\ ret'.card = grid[call'.y][call'.x].card
           /\ grid'[call'.y][call'.x].is_face_up
           /\ grid'[call'.y][call'.x].controlled_by = call'.player
           /\ LET mine == PendingOf(pending_cards', call'.player)
              IN  /\ mine # <<>>
                  /\ mine[Len(mine)] =
                       <<call'.x, call'.y, grid[call'.y][call'.x].card>>)]_vars

\* the last two pending entries of p hold equal (same = TRUE) or different
\* (same = FALSE) cards
PairPending(p, same) ==
    LET mine == PendingOf(pending_cards, p) IN
      /\ Len(mine) = 2
      /\ (mine[1][3] = mine[2][3]) = same

\* C4 (as claimed): when a player's two pending cards are equal, resolving
\* the pair removes both cells (no card, face-down, uncontrolled), adds
\* exactly 1 to the player's score, empties the pending selection and
\* reports matched = TRUE.
C4_MatchResolves ==
    [][(Called("check_match") /\ PairPending(call'.player, TRUE))
       => LET mine == pending_cards[call'.player] IN
            /\ \A i \in 1 .. 2 :
                 grid'[mine[i][2]][mine[i][1]] = Space(None, FALSE, None)
            /\ DictGet(scores', call'.player, 0)
                 = DictGet(scores, call'.player, 0) + 1
            /\ PendingOf(pending_cards', call'.player) = <<>>
            /\ ret'.ok
            /\ "matched" \in DOMAIN ret'
            /\ ret'.matched = TRUE]_vars

\* C5 (as claimed): when a player's two pending cards differ, resolving the
\* pair leaves both cells face-down and uncontrolled with their cards,
\* empties the pending selection, changes no score and reports
\* matched = FALSE.
C5_MismatchResolves ==
    [][(Called("check_match") /\ PairPending(call'.player, FALSE))
       => LET mine == pending_cards[call'.player] IN
            /\ \A i \in 1 .. 2 :
                 grid'[mine[i][2]][mine[i][1]] = Space(mine[i][3], FALSE, None)
            /\ scores' = scores
            /\ PendingOf(pending_cards', call'.player) = <<>>
            /\ ret'.ok
            /\ "matched" \in DOMAIN ret'
            /\ ret'.matched = FALSE]_vars

\* C6 (as claimed): a flip by Q on a cell that is face-up and controlled by
\* a different player P is refused and never takes effect: the cell is as
\* it was.
C6_ContestedFlipRefused ==
    [][(/\ Called("flip")
        /\ in_bounds(call'.x, call'.y)
        /\ grid[call'.y][call'.x].is_face_up
        /\ grid[call'.y][call'.x].controlled_by \in Players \ {call'.player})
       => (/\ ~ret'.ok
           /\ grid'[call'.y][call'.x] = grid[call'.y][call'.x])]_vars

\* C7 (as claimed): once P controls a cell, no operation issued by another
\* player changes the cell's face-up flag or its controller.
C7_ControlStable ==
    [][\A c \in Cells :
         (/\ grid[c[2]][c[1]].controlled_by # None
          /\ call'.op \in {"look", "flip", "check_match", "watch"}
          /\ call'.player # grid[c[2]][c[1]].controlled_by)
         => (/\ grid'[c[2]][c[1]].is_face_up = grid[c[2]][c[1]].is_face_up
             /\ grid'[c[2]][c[1]].controlled_by = grid[c[2]][c[1]].controlled_by)]_vars

\* C8 (as claimed): whenever flip or check_match returns ok = FALSE, the
\* grid, the score table and every pending selection are as before the
\* call.
C8_FailureChangesNothing ==
    [][((Called("flip") \/ Called("check_match")) /\ ~ret'.ok)
       => (grid' = grid /\ scores' = scores /\ pending_cards' = pending_cards)]_vars

\* C9: a flip with coordinates outside the board, or on an in-bounds cell
\* whose card has been removed, returns ok = FALSE with the out-of-bounds
\* or the no-card message and leaves grid, scores and pending selections
\* unchanged.
C9_BadFlipRejected ==
    [][(/\ Called("flip")
        /\ (in_bounds(call'.x, call'.y) => grid[call'.y][call'.x].card = None))
       => (/\ ~ret'.ok
           /\ "message" \in DOMAIN ret'
           /\ ret'.message[1] =
                (IF in_bounds(call'.x, call'.y) THEN "No card at" ELSE "out of bounds")
           /\ grid' = grid
           /\ scores' = scores
           /\ pending_cards' = pending_cards)]_vars

\* C9 witness: a flip on a cell whose card was removed has been refused,
\* while some player has a pending selection
C9_Witness ==
    /\ call.op = "flip"
    /\ in_bounds(call.x, call.y)
    /\ grid[call.y][call.x].card = None
    /\ ~ret.ok
    /\ ret.message = <<"No card at", call.x, call.y>>
    /\ \E p \in Players : PendingOf(pending_cards, p) # <<>>

\* C10: look never blocks and never mutates: it can run in every reachable
\* state, and it returns ok = TRUE with the board's width and height, the
\* projection of every cell and the score table, leaving grid, scores and
\* pending selections unchanged.
C10_LookIsPure ==
    /\ [](\A p \in Players : ENABLED Look(p))
    /\ [][Called("look")
          => (/\ ret'.ok
              /\ ret'.width = width
              /\ ret'.height = height
              /\ Len(ret'.board) = height
              /\ \A c \in Cells :
                   /\ Len(ret'.board[c[2] + 1]) = width
                   /\ ret'.board[c[2] + 1][c[1] + 1] =
                        [card |-> grid[c[2]][c[1]].card,
                         is_face_up |-> grid[c[2]][c[1]].is_face_up,
                         controlled_by |-> grid[c[2]][c[1]].controlled_by]
              /\ ret'.scores = scores
              /\ grid' = grid
              /\ scores' = scores
              /\ pending_cards' = pending_cards)]_vars

\* C10 witness: look has returned the projection of a board on which one
\* card is face-up and controlled and another is hidden
C10_Witness ==
    /\ call.op = "look"
    /\ ret.ok
    /\ ret.board = serialize_board(grid)
    /\ \E c \in Cells : grid[c[2]][c[1]].controlled_by = call.player
    /\ \E c \in Cells : ~grid[c[2]][c[1]].is_face_up

\* C11 (as claimed): a watch call does not return in the state it was issued
\* in; it returns only after a mutation of the board that follows the call,
\* and then with the projection look returns. A step that is both the call
\* and the return of watch must therefore span a mutation and answer as
\* look answers.
C11_WatchWaitsForChange ==
    [][Called("watch") =>
         /\ grid' # grid
         /\ ret' = look(call'.player).ret]_vars

\* C13 (as claimed): once a player's second flip has succeeded, nothing runs
\* and nothing is observed before that player's pair is resolved: the only
\* step that can follow the second flip is the resolution for that player.
C13_PairResolvedAtomically ==
    [][(/\ call.op = "flip"
        /\ ret.ok
        /\ Len(PendingOf(pending_cards, call.player)) = 2)
       => (Called("check_match") /\ call'.player = call.player)]_vars

\* the cells that are face-up
FaceUpCells == {c \in Cells : grid[c[2]][c[1]].is_face_up}

\* C14: when N distinct players each flip one cell of a fresh board of 2N
\* cells, no two of them the same cell, then in every order every flip
\* returns ok=true, and the face-up cells are exactly the flipped ones, each
\* holding the card its flipper was given and controlled by its flipper (so
\* N of them once all N flips have returned).
C14_DisjointFlipsSucceed ==
    /\ call.op = "flip" => ret.ok
    /\ Cardinality(FaceUpCells) = Cardinality(Flippers)
    /\ \A p \in Flippers :
         LET mine == pending_cards[p]
             space == grid[mine[1][2]][mine[1][1]]
         IN  /\ Len(mine) = 1
             /\ space.is_face_up
             /\ space.card = mine[1][3]
             /\ space.controlled_by = p

\* C14 witness: both players have flipped their cell of a board of four
\* cells, so two cells are face-up
C14_Witness ==
    /\ width * height = 4
    /\ Flippers = Players
    /\ call.op = "flip"
    /\ Cardinality(FaceUpCells) = 2

\* C15 (as claimed): no player's pending selection ever holds more than two
\* entries.
C15_PendingAtMostTwo ==
    \A p \in Players : Len(PendingOf(pending_cards, p)) <= 2

\* C16 (as claimed): every entry (x, y, card) of a player's pending selection
\* names a cell that now holds that card, is face-up and is controlled by
\* that player.
C16_PendingCellsHeld ==
    \A p \in DOMAIN pending_cards :
      \A i \in 1 .. Len(pending_cards[p]) :
        LET entry == pending_cards[p][i]
            space == grid[entry[2]][entry[1]]
        IN  /\ space.card = entry[3]
            /\ space.is_face_up
            /\ space.controlled_by = p

\* C17: in every step each player's score stays as it is or grows by exactly
\* one, and it grows only in a check_match call of that player that answers
\* ok with matched true; it never shrinks.
C17_ScoreGrowsOnlyByMatch ==
    [][\A p \in Players :
         LET old == DictGet(scores, p, 0)
             new == DictGet(scores', p, 0)
         IN  \/ new = old
             \/ /\ new = old + 1
                /\ Called("check_match")
                /\ call'.player = p
                /\ ret'.ok
                /\ "matched" \in DOMAIN ret'
                /\ ret'.matched]_vars

\* C17 witness: a player has asked for the resolution of two pending cards
\* that are equal, the one call in which a score may change
C17_Witness ==
    /\ call.op = "check_match"
    /\ PairPending(call.player, TRUE)

\* C18 (as claimed): the grid projection look returns does not carry the
\* identity of any face-down card.
C18_FaceDownCardsHidden ==
    (call.op = "look" /\ ret.ok) =>
      \A c \in Cells :
        LET space == grid[c[2]][c[1]] IN
          (space.card # None /\ ~space.is_face_up) =>
            ret.board[c[2] + 1][c[1] + 1].card # space.card

\* C19: a flip call never waits and never lets an error through: in every
\* reachable state, however the players' calls have interleaved, every flip
\* by every player on every position (on the board or off it) runs to its
\* return within the step that takes it and answers with a result carrying
\* a boolean ok, and every flip that has returned has answered so.
C19_FlipAlwaysReturns ==
    /\ call.op = "flip" => "ok" \in DOMAIN ret
    /\ \A p \in Players : \A c \in CoordArgs :
         LET e == flip(p, c[1], c[2])
         IN  /\ "ok" \in DOMAIN e.ret
             /\ e.ret.ok \in BOOLEAN

\* C19 witness: both players hold a card and a flip has just been answered
\* with the error raised inside it
C19_Witness ==
    /\ call.op = "flip"
    /\ ~ret.ok
    /\ ret.message[1] = "Error"
    /\ Flippers = Players

\* C20 (as claimed): a flip that returns ok=true also returns the board
\* projection under the keys board, width and height, and there the flipped
\* cell has state "my" or "up" and a card.
C20_FlipReturnsBoard ==
    (call.op = "flip" /\ ret.ok) =>
      /\ {"board", "width", "height"} \subseteq DOMAIN ret
      /\ LET cell == ret.board[call.y + 1][call.x + 1]
         IN  /\ "state" \in DOMAIN cell
             /\ cell.state \in {"my", "up"}
             /\ cell.card # None

\* C21 (as claimed): the board projection handed to a player has exactly
\* height rows of exactly width cells, and every cell carries a state among
\* down, up, my, none, together with card and controlled_by.
C21_ProjectionCarriesState ==
    (call.op = "look" /\ ret.ok) =>
      /\ DOMAIN ret.board = 1 .. height
      /\ \A i \in 1 .. height :
           /\ DOMAIN ret.board[i] = 1 .. width
           /\ \A j \in 1 .. width :
                LET cell == ret.board[i][j] IN
                  /\ {"state", "card", "controlled_by"} \subseteq DOMAIN cell
                  /\ cell.state \in {"down", "up", "my", "none"}

\* the operations of GameManager a caller reaches
CallerOps == {"look", "flip", "check_match", "watch"}

\* C22 (as claimed): every result a caller-facing operation returns, on
\* success and on failure, carries both ok and message.
C22_ResultHasOkAndMessage ==
    call.op \in CallerOps => {"ok", "message"} \subseteq DOMAIN ret

\* C23 (as claimed): when a player flips a card that is face-up and
\* uncontrolled, and then at once flips it again, the card ends face-down.
\* The first flip is the step; the second is flip evaluated in the state
\* the first one leaves.
C23_FlipTwiceHides ==
    [][\A p \in Players : \A c \in Cells :
         (/\ Called("flip")
          /\ call'.player = p
          /\ call'.x = c[1]
          /\ call'.y = c[2]
          /\ grid[c[2]][c[1]].card # None
          /\ grid[c[2]][c[1]].is_face_up
          /\ grid[c[2]][c[1]].controlled_by = None)
         => ~(flip(p, c[1], c[2]).grid[c[2]][c[1]].is_face_up)']_vars

\* every cell other than (x, y) is the same before and after the step
OthersUnchanged(x, y) ==
    \A c \in Cells \ {<<x, y>>} : grid'[c[2]][c[1]] = grid[c[2]][c[1]]

\* the step just taken is the Board method op called on a cell of the board
CalledOnCell(op) == Called(op) /\ in_bounds(call'.x, call'.y)

\* C24: Board.flip_card(x, y) on a cell holding a card leaves that cell with
\* the same card, the opposite face, and as controller none when it ends
\* face-down and the controller it had when it ends face-up; on an empty
\* cell it fails and leaves the cell as it was; in both cases every other
\* cell is unchanged.
C24_FlipCardFrame ==
    [][CalledOnCell("flip_card") =>
         LET old == grid[call'.y][call'.x]
             new == grid'[call'.y][call'.x]
         IN  /\ OthersUnchanged(call'.x, call'.y)
             /\ IF old.card = None
                  THEN ret'.exc # None /\ new = old
                  ELSE /\ new.card = old.card
                       /\ new.is_face_up = ~old.is_face_up
                       /\ new.controlled_by =
                            IF new.is_face_up THEN old.controlled_by
                            ELSE None]_vars

\* C24 witness: flip_card has returned after hiding a card that a pending
\* selection names
C24_Witness ==
    /\ call.op = "flip_card"
    /\ in_bounds(call.x, call.y)
    /\ ret.exc = None
    /\ grid[call.y][call.x].card # None
    /\ ~grid[call.y][call.x].is_face_up
    /\ \E p \in Flippers :
         <<pending_cards[p][1][1], pending_cards[p][1][2]>> = <<call.x, call.y>>

\* C25: Board.set_control(x, y, player) returns without error only when the
\* cell holds a card, is face-up and player is a non-empty string, and then
\* the cell differs from before in its controller alone, which is player;
\* on an empty cell, a face-down cell, or an empty or null player it fails
\* and the cell is as before; in every case every other cell is unchanged.
C25_SetControlFrame ==
    [][CalledOnCell("set_control") =>
         LET old == grid[call'.y][call'.x]
             new == grid'[call'.y][call'.x]
             allowed == /\ old.card # None
                        /\ old.is_face_up
                        /\ call'.player \notin {None, ""}
         IN  /\ OthersUnchanged(call'.x, call'.y)
             /\ ret'.exc = None => allowed
             /\ IF allowed
                  THEN new = [old EXCEPT !.controlled_by = call'.player]
                  ELSE ret'.exc # None /\ new = old]_vars

\* C25 witness: set_control has returned and the cell is controlled by the
\* player it was given
C25_Witness ==
    /\ call.op = "set_control"
    /\ in_bounds(call.x, call.y)
    /\ ret.exc = None
    /\ grid[call.y][call.x].controlled_by = call.player

\* C26: Board.remove_control(x, y) on a cell holding a card leaves that cell
\* with no controller and with the card and face it had, whatever its state
\* was, and every other cell unchanged; calling it again on the resulting
\* grid gives that same grid.
C26_RemoveControlIdempotent ==
    [][(CalledOnCell("remove_control")
          /\ grid[call'.y][call'.x].card # None) =>
         LET old == grid[call'.y][call'.x]
             new == grid'[call'.y][call'.x]
         IN  /\ OthersUnchanged(call'.x, call'.y)
             /\ new = [old EXCEPT !.controlled_by = None]
             /\ \A c \in Cells :
                  (c[1] = call'.x /\ c[2] = call'.y) =>
                    (remove_control(grid, c[1], c[2]).grid)' = grid']_vars

\* C26 witness: remove_control has returned on a face-up card, which is
\* now uncontrolled while a pending selection still names it
C26_Witness ==
    /\ call.op = "remove_control"
    /\ in_bounds(call.x, call.y)
    /\ ret.exc = None
    /\ grid[call.y][call.x].is_face_up
    /\ grid[call.y][call.x].controlled_by = None
    /\ \E p \in Flippers :
         <<pending_cards[p][1][1], pending_cards[p][1][2]>> = <<call.x, call.y>>

\* C27: Board.remove_card(x, y) on a cell holding a face-up card returns and
\* leaves that cell empty, face-down and uncontrolled; on an empty or a
\* face-down cell it fails and leaves the cell as it was; every other cell
\* is unchanged. And in every reachable state every empty cell is face-down
\* and uncontrolled.
C27_RemoveCardFrame ==
    /\ [](\A c \in Cells :
            grid[c[2]][c[1]].card = None =>
              /\ ~grid[c[2]][c[1]].is_face_up
              /\ grid[c[2]][c[1]].controlled_by = None)
    /\ [][CalledOnCell("remove_card") =>
            LET old == grid[call'.y][call'.x]
                new == grid'[call'.y][call'.x]
            IN  /\ OthersUnchanged(call'.x, call'.y)
                /\ IF old.card # None /\ old.is_face_up
                     THEN ret'.exc = None /\ new = Space(None, FALSE, None)
                     ELSE ret'.exc # None /\ new = old]_vars

\* C27 witness: remove_card has returned and its cell is empty while the
\* other card of the pair is still on the board
C27_Witness ==
    /\ call.op = "remove_card"
    /\ in_bounds(call.x, call.y)
    /\ ret.exc = None
    /\ grid[call.y][call.x].card = None
    /\ \E c \in Cells : grid[c[2]][c[1]].card # None

\* C28: a newly created Board, whatever the shuffle dealt, has every cell
\* holding a card, face-down and uncontrolled, and each card of the given
\* set in exactly two cells; the GameManager created on it has an empty
\* score table and no pending selections.
C28_NewGameFresh ==
    call.op = "new" =>
      /\ \A c \in Cells :
           /\ grid[c[2]][c[1]].card \in CardSet(width, height)
           /\ ~grid[c[2]][c[1]].is_face_up
           /\ grid[c[2]][c[1]].controlled_by = None
      /\ \A card \in CardSet(width, height) :
           CardCount(grid, width, height, card) = 2
      /\ scores = EmptyDict
      /\ pending_cards = EmptyDict

\* C28 witness: a new board of four cells on which the shuffle put the
\* second card first and the two cards of a pair on a diagonal
C28_Witness ==
    /\ call.op = "new"
    /\ width * height = 4
    /\ grid[0][0].card = AllCards[2]
    /\ grid[1][1].card = AllCards[2]

\* C29: check_match called for a player with fewer than two pending entries
\* answers ok=false and leaves the grid, the scores and every pending
\* selection as they were.
C29_CheckMatchNeedsTwo ==
    [][(Called("check_match")
          /\ Len(PendingOf(pending_cards, call'.player)) < 2) =>
         /\ ~ret'.ok
         /\ UNCHANGED <<grid, scores, pending_cards>>]_vars

\* C29 witness: check_match has been refused for a player holding a single
\* pending entry while the other player holds none
C29_Witness ==
    /\ call.op = "check_match"
    /\ ~ret.ok
    /\ ret.message = <<"No two cards to check">>
    /\ Flippers = {call.player}
    /\ Len(pending_cards[call.player]) = 1

\* the sum of all players' scores
TotalScore ==
    LET RECURSIVE Sum(_)
        Sum(S) == IF S = {} THEN 0
                  ELSE LET k == CHOOSE k \in S : TRUE
                       IN  scores[k] + Sum(S \ {k})
    IN  Sum(DOMAIN scores)

\* the cells holding no card
EmptyCells == {c \in Cells : grid[c[2]][c[1]].card = None}

C31_FirstFlipFrame ==
    [][(Called("flip") /\ PendingOf(pending_cards, call'.player) = <<>>) =>
         /\ OthersUnchanged(call'.x, call'.y)
         /\ scores' = scores
         /\ \A q \in Players \ {call'.player} :
              /\ (q \in DOMAIN pending_cards') = (q \in DOMAIN pending_cards)
              /\ PendingOf(pending_cards', q) = PendingOf(pending_cards, q)]_vars

\* C31 witness: a player has just taken a first card while the other player
\* holds one, on a board of four cells
C31_Witness ==
    /\ call.op = "flip"
    /\ ret.ok
    /\ width * height = 4
    /\ Len(PendingOf(pending_cards, call.player)) = 1
    /\ \E q \in Players \ {call.player} : PendingOf(pending_cards, q) # <<>>

====
